---- MODULE Spec2Model ----
(***************************************************************************)
(* Trebal API: the constitution's value rules (src/constitution.js) and    *)
(* the certificate lifecycle handlers of the Express server                *)
(* (src/README.md, lines 15-268).                                          *)
(*                                                                         *)
(* Every handler is an async function: it runs atomically up to each       *)
(* `await`, so a handler is one action per segment between awaits.  A      *)
(* prisma.$transaction (row update + audit row) commits atomically.        *)
(***************************************************************************)
EXTENDS Integers, Sequences, FiniteSets

(* ----------------------------- bounds --------------------------------- *)
\* certificates the environment purchases in Spec
MaxNfts == 1
\* audit rows after which the environment of Spec stops
MaxAudit == 4
\* certificates the environment purchases in SpecRace
RaceNfts == 1
\* audit rows after which the environment of SpecRace stops
RaceAudit == 4
\* certificates the environment purchases in SpecCap
CapNfts == 6
\* largest usable value the pure functions are applied to in SpecFn
MaxUv == 400
\* largest batchCount the pure functions are applied to in SpecFn
MaxBatch == 6
\* largest non-ladder face value splitLvUv is applied to
MaxOffLadder == 300
\* largest activity score computeSellerClass is applied to in SpecFn
MaxSem == 310
\* certificates the environment purchases in SpecCapRace
CapRaceNfts == 6

(* ------------------------ src/constitution.js -------------------------- *)
NFT_FACE_VALUE_LADDER ==
    << 250, 500, 1000, 2000, 4000, 8000, 15000, 30000, 60000, 120000,
       220000, 380000, 600000, 850000, 1000000 >>

LadderSet == { NFT_FACE_VALUE_LADDER[i] : i \in DOMAIN NFT_FACE_VALUE_LADDER }

\* 0.10 and 0.90, in hundredths
LV_RATE == 10
UV_RATE == 90

\* a range check in place of the membership test
FaceValueAllowed_Range(value) ==
    value >= NFT_FACE_VALUE_LADDER[1]
        /\ value <= NFT_FACE_VALUE_LADDER[Len(NFT_FACE_VALUE_LADDER)]

\* NFT_FACE_VALUE_LADDER.includes(value)
FaceValueAllowed(value) == value \in LadderSet

\* Math.round(x * rate) for a non-negative integer x and a rate in
\* hundredths: the nearest integer, a half rounding up.  The double product
\* of a ladder value and 0.10 is within 1e-9 of value/10, an integer, so
\* Math.round yields exactly that integer.
MathRound(x, rate) == (x * rate + 50) \div 100

\* the power of two P with P < k <= 2P  (k >= 2)
RECURSIVE BinadeBelow(_, _)
BinadeBelow(k, P) == IF 2 * P < k THEN BinadeBelow(k, 2 * P) ELSE P

\* Math.floor(x * rate) as IEEE-754 doubles compute it, for an integer
\* 0 <= x <= 3000000 and the rates of this file, in hundredths.
\* The double nearest 0.35 is 0.35 - 0.4 * 2^-54.  When x * 0.35 is an
\* integer k, the real product is k - (8k/7) * 2^-54; the doubles next to it
\* are k and k - 2^(e-52) with 2^e < k <= 2^(e+1), and the product rounds
\* down to the latter exactly when 4k > 7 * 2^e: Math.floor then yields
\* k - 1 (180 * 0.35 = 62.99999999999999).  For the other rates
\* (0.10, 0.15, 0.25, 0.30, 0.40, 0.45, 0.50) the double product never falls
\* below an integer real product, and a non-integer real product is at
\* least 1/100 away from the integers, so the exact floor results.
MathFloorMul(x, rate) ==
    LET exact == (x * rate) \div 100
    IN  IF /\ rate = 35
           /\ (x * rate) % 100 = 0
           /\ exact >= 2
           /\ 4 * exact > 7 * BinadeBelow(exact, 1)
        THEN exact - 1
        ELSE exact

\* assertFaceValueAllowed + splitLvUv: err is the thrown Error's message
splitLvUv(faceValue) ==
    IF ~ FaceValueAllowed(faceValue)
    THEN [err |-> "FACE_VALUE_NOT_ALLOWED", lv |-> 0, uv |-> 0]
    ELSE LET lv == MathRound(faceValue, LV_RATE)
         IN  [err |-> "", lv |-> lv, uv |-> faceValue - lv]

\* the rows entered in the opposite order
CASH_OUT_TABLE_Reversed == [b \in 1..5 |-> 55 - 5 * b]

\* collaboratorUvPct of each row, in hundredths
CASH_OUT_TABLE == [b \in 1..5 |-> 25 + 5 * b]

cashOutSplit(batchCount, uv) ==
    IF batchCount \notin DOMAIN CASH_OUT_TABLE
    THEN [err |-> "INVALID_BATCH_COUNT", collaboratorPayout |-> 0, trebalCapture |-> 0]
    ELSE LET collaboratorPayout == MathFloorMul(uv, CASH_OUT_TABLE[batchCount])
         IN  [err |-> "", collaboratorPayout |-> collaboratorPayout,
              trebalCapture |-> uv - collaboratorPayout]

\* retained computed as its own floored quarter instead of the remainder
sponsorshipSplit_FlooredRetained(uv) ==
    [collaborator |-> MathFloorMul(uv, 50), seller |-> MathFloorMul(uv, 25),
     retained |-> MathFloorMul(uv, 25)]

sponsorshipSplit(uv) ==
    LET collaborator == MathFloorMul(uv, 50)
        seller == MathFloorMul(uv, 25)
    IN  [collaborator |-> collaborator, seller |-> seller,
         retained |-> uv - collaborator - seller]

\* the discount pool taken at 25% instead of 15%
distributionInternalAllocationFromUv_QuarterPool(uvOriginal) ==
    [platformFee |-> MathFloorMul(uvOriginal, 10),
     discountPool |-> MathFloorMul(uvOriginal, 25)]

distributionInternalAllocationFromUv(uvOriginal) ==
    [platformFee |-> MathFloorMul(uvOriginal, 10),
     discountPool |-> MathFloorMul(uvOriginal, 15)]

\* thresholds compared with > in place of >=
computeSellerClass_Strict(sem) ==
    IF sem > 300 THEN "A"
    ELSE IF sem > 150 THEN "B"
    ELSE IF sem > 80 THEN "C"
    ELSE IF sem > 40 THEN "D"
    ELSE "E"

computeSellerClass(sem) ==
    IF sem >= 300 THEN "A"
    ELSE IF sem >= 150 THEN "B"
    ELSE IF sem >= 80 THEN "C"
    ELSE IF sem >= 40 THEN "D"
    ELSE "E"

DISTRIBUTION_TERMINAL_THRESHOLD == 40

\* the thrown Error's message, "" when nothing is thrown
assertSellerCanDistribute(sellerClass) ==
    IF sellerClass = "E" THEN "SELLER_CLASS_E_NOT_PERMITTED" ELSE ""

(* ------------------------------ users ---------------------------------- *)
\* The user table: one account per role made by POST /auth/register
\* (roles: [role]) and the administrator made by seed.js.  No handler
\* updates a user, and a token carries the roles of its user.
UserRoles ==
    [ c1    |-> {"CUSTOMER"},
      k1    |-> {"COLLABORATOR"},
      s1    |-> {"SELLER"},
      admin |-> {"ADMIN", "SELLER", "COLLABORATOR"} ]

Users == DOMAIN UserRoles

\* A user's activity score ("sem").  No handler reads or writes one; the
\* accounts made by /auth/register have no activity yet, the administrator
\* stands for a seller of the top class.
UserSem == [ c1 |-> 0, k1 |-> 0, s1 |-> 0, admin |-> 300 ]

\* request inputs
UserIdInputs == Users \cup {"nobody"}
FaceInputs == {1000, 300}
BatchInputs == {0, 2, 5}
RaceFaces == {250, 380000}
Slots == {1, 2}

\* the count at which POST /nft/gift refuses a collaborator
COLLABORATOR_NFT_CAP == 5

(* ------------------------------ state ---------------------------------- *)
VARIABLES
    nfts,       \* table nft: row id |-> row, ids in creation order
    audit,      \* table auditEvent, in insertion order (append-only)
    nftWrites,  \* per nft row: committed tx.nft.create / tx.nft.update calls
    inflight,   \* per slot: the handler suspended at an await, or Idle
    last,       \* the request the latest step worked on and its response
    calc        \* the latest direct application of a constitution function

vars == << nfts, audit, nftWrites, inflight, last, calc >>

\* a nullable Int column holding null
NULL_INT == 0 - 1

Idle == [kind |-> "idle", pc |-> "idle", caller |-> "", nftId |-> 0,
         target |-> "", payload |-> << >>]

NoLast == [kind |-> "none", step |-> "none", caller |-> "", nftId |-> 0,
           target |-> "", arg |-> 0, resp |-> ""]

NoCalc == [fn |-> "none", a |-> 0, b |-> 0, out |-> << >>]

Init ==
    /\ nfts = << >>
    /\ audit = << >>
    /\ nftWrites = << >>
    /\ inflight = [s \in Slots |-> Idle]
    /\ last = NoLast
    /\ calc = NoCalc

\* requireRole(role) on the token's roles
HasRole(user, role) == user \in Users /\ role \in UserRoles[user]

\* prisma.nft.count({ where: { ownerId, state: { not: "RETIRED" } } })
ActiveCount(ownerId) ==
    Cardinality({ i \in DOMAIN nfts :
                    nfts[i].ownerId = ownerId /\ nfts[i].state # "RETIRED" })

AuditEvent(actorId, type, nftId, payload) ==
    [actorId |-> actorId, type |-> type, nftId |-> nftId, payload |-> payload]

Respond(kind, step, caller, nftId, target, arg, resp) ==
    [kind |-> kind, step |-> step, caller |-> caller, nftId |-> nftId,
     target |-> target, arg |-> arg, resp |-> resp]

Suspend(s, kind, pc, caller, nftId, target, payload) ==
    [inflight EXCEPT ![s] = [kind |-> kind, pc |-> pc, caller |-> caller,
                             nftId |-> nftId, target |-> target,
                             payload |-> payload]]

(* ------------------------- POST /nft/purchase -------------------------- *)
PurchaseChecks(caller, faceValue) ==
    IF ~ HasRole(caller, "CUSTOMER") THEN "FORBIDDEN"
    ELSE IF ~ FaceValueAllowed(faceValue) THEN "FACE_VALUE_NOT_ALLOWED"
    ELSE splitLvUv(faceValue).err

\* The handler reads nothing before its only await, the transaction.
Purchase(caller, faceValue) ==
    LET resp == PurchaseChecks(caller, faceValue)
        split == splitLvUv(faceValue)
        id == Len(nfts) + 1
    IN  /\ IF resp = ""
           THEN /\ nfts' = Append(nfts,
                      [faceValue |-> faceValue, lockedValue |-> split.lv,
                       usableValue |-> split.uv, state |-> "GIFT",
                       ownerId |-> caller, giftedFromId |-> "",
                       distributionRemainingValue |-> NULL_INT])
                /\ audit' = Append(audit,
                      AuditEvent(caller, "NFT_PURCHASED", id,
                          [faceValue |-> faceValue, lv |-> split.lv,
                           uv |-> split.uv]))
                /\ nftWrites' = Append(nftWrites, 1)
           ELSE UNCHANGED << nfts, audit, nftWrites >>
        /\ last' = Respond("purchase", "commit", caller,
                           IF resp = "" THEN id ELSE 0, "", faceValue,
                           IF resp = "" THEN "OK" ELSE resp)
        /\ UNCHANGED << inflight, calc >>

(* --------------------------- POST /nft/gift ---------------------------- *)
GiftChecks(caller, nftId, collaboratorId) ==
    IF ~ HasRole(caller, "CUSTOMER") THEN "FORBIDDEN"
    ELSE IF nftId \notin DOMAIN nfts THEN "NFT_NOT_FOUND"
    ELSE IF nfts[nftId].ownerId # caller THEN "NOT_OWNER"
    ELSE IF ~ HasRole(collaboratorId, "COLLABORATOR") THEN "INVALID_COLLABORATOR"
    ELSE "PENDING"

\* up to `await prisma.nft.count`
GiftRead(s, caller, nftId, collaboratorId) ==
    LET resp == GiftChecks(caller, nftId, collaboratorId)
    IN  /\ inflight[s] = Idle
        /\ inflight' = IF resp = "PENDING"
                       THEN Suspend(s, "gift", "count", caller, nftId,
                                    collaboratorId, << >>)
                       ELSE inflight
        /\ last' = Respond("gift", "read", caller, nftId, collaboratorId, 0, resp)
        /\ UNCHANGED << nfts, audit, nftWrites, calc >>

\* the cap compared with > in place of >=
GiftCapCheck_OffByOne(collaboratorId) ==
    IF ActiveCount(collaboratorId) > COLLABORATOR_NFT_CAP
    THEN "COLLABORATOR_NFT_CAP_REACHED"
    ELSE "PENDING"

GiftCapCheck(collaboratorId) ==
    IF ActiveCount(collaboratorId) >= COLLABORATOR_NFT_CAP
    THEN "COLLABORATOR_NFT_CAP_REACHED"
    ELSE "PENDING"

\* the count and the cap check, up to `await prisma.$transaction`
GiftCount(s) ==
    LET r == inflight[s]
        resp == GiftCapCheck(r.target)
    IN  /\ r.kind = "gift" /\ r.pc = "count"
        /\ inflight' = [inflight EXCEPT ![s] =
                           IF resp = "PENDING" THEN [r EXCEPT !.pc = "commit"]
                           ELSE Idle]
        /\ last' = Respond("gift", "count", r.caller, r.nftId, r.target, 0, resp)
        /\ UNCHANGED << nfts, audit, nftWrites, calc >>

GiftUpdate(row, caller, collaboratorId) ==
    [row EXCEPT !.ownerId = collaboratorId, !.giftedFromId = caller,
                !.state = "GIFT"]

\* the transaction: nft.update + auditEvent.create
GiftCommit(s) ==
    LET r == inflight[s]
    IN  /\ r.kind = "gift" /\ r.pc = "commit"
        /\ nfts' = [nfts EXCEPT ![r.nftId] = GiftUpdate(@, r.caller, r.target)]
        /\ audit' = Append(audit,
               AuditEvent(r.caller, "NFT_GIFTED", r.nftId, [to |-> r.target]))
        /\ nftWrites' = [nftWrites EXCEPT ![r.nftId] = @ + 1]
        /\ inflight' = [inflight EXCEPT ![s] = Idle]
        /\ last' = Respond("gift", "commit", r.caller, r.nftId, r.target, 0, "OK")
        /\ UNCHANGED calc

(* ----------------------- POST /collab/nft/stack ------------------------ *)
StackChecks(caller, nftId) ==
    IF ~ HasRole(caller, "COLLABORATOR") THEN "FORBIDDEN"
    ELSE IF nftId \notin DOMAIN nfts THEN "NFT_NOT_FOUND"
    ELSE IF nfts[nftId].ownerId # caller THEN "NOT_OWNER"
    ELSE IF nfts[nftId].state = "RETIRED" THEN "NFT_RETIRED"
    ELSE "PENDING"

\* the row written before the RETIRED check answers
StackRead_WritesBeforeRetiredCheck(s, caller, nftId) ==
    LET resp == StackChecks(caller, nftId)
    IN  /\ inflight[s] = Idle
        /\ inflight' = IF resp = "PENDING"
                       THEN Suspend(s, "stack", "commit", caller, nftId, "", << >>)
                       ELSE inflight
        /\ last' = Respond("stack", "read", caller, nftId, "", 0, resp)
        /\ nfts' = IF resp = "NFT_RETIRED"
                   THEN [nfts EXCEPT ![nftId] = [@ EXCEPT !.state = "STACKED"]]
                   ELSE nfts
        /\ UNCHANGED << audit, nftWrites, calc >>

StackRead(s, caller, nftId) ==
    LET resp == StackChecks(caller, nftId)
    IN  /\ inflight[s] = Idle
        /\ inflight' = IF resp = "PENDING"
                       THEN Suspend(s, "stack", "commit", caller, nftId, "", << >>)
                       ELSE inflight
        /\ last' = Respond("stack", "read", caller, nftId, "", 0, resp)
        /\ UNCHANGED << nfts, audit, nftWrites, calc >>

\* a stack that also clears who gave the certificate
StackUpdate_ClearsGiftedFrom(row) ==
    [row EXCEPT !.state = "STACKED", !.giftedFromId = ""]

StackUpdate(row) == [row EXCEPT !.state = "STACKED"]

StackCommit(s) ==
    LET r == inflight[s]
    IN  /\ r.kind = "stack" /\ r.pc = "commit"
        /\ nfts' = [nfts EXCEPT ![r.nftId] = StackUpdate(@)]
        /\ audit' = Append(audit,
               AuditEvent(r.caller, "NFT_STACKED", r.nftId, << >>))
        /\ nftWrites' = [nftWrites EXCEPT ![r.nftId] = @ + 1]
        /\ inflight' = [inflight EXCEPT ![s] = Idle]
        /\ last' = Respond("stack", "commit", r.caller, r.nftId, "", 0, "OK")
        /\ UNCHANGED calc

(* ---------------------- POST /collab/nft/cashout ----------------------- *)
\* schema: batchCount: z.number().int().min(1).max(5); parse throws a ZodError
CashoutChecks(caller, nftId, batchCount) ==
    IF ~ HasRole(caller, "COLLABORATOR") THEN "FORBIDDEN"
    ELSE IF batchCount < 1 \/ batchCount > 5 THEN "ZOD_ERROR"
    ELSE IF nftId \notin DOMAIN nfts THEN "NFT_NOT_FOUND"
    ELSE IF nfts[nftId].ownerId # caller THEN "NOT_OWNER"
    ELSE IF nfts[nftId].state = "RETIRED" THEN "NFT_RETIRED"
    ELSE IF cashOutSplit(batchCount, nfts[nftId].usableValue).err # ""
         THEN cashOutSplit(batchCount, nfts[nftId].usableValue).err
    ELSE "PENDING"

\* the split is computed from the row as read, before the transaction
CashoutRead(s, caller, nftId, batchCount) ==
    LET resp == CashoutChecks(caller, nftId, batchCount)
    IN  /\ inflight[s] = Idle
        /\ inflight' =
             IF resp = "PENDING"
             THEN LET split == cashOutSplit(batchCount, nfts[nftId].usableValue)
                  IN  Suspend(s, "cashout", "commit", caller, nftId, "",
                          [batchCount |-> batchCount,
                           collaboratorPayout |-> split.collaboratorPayout,
                           trebalCapture |-> split.trebalCapture])
             ELSE inflight
        /\ last' = Respond("cashout", "read", caller, nftId, "", batchCount, resp)
        /\ UNCHANGED << nfts, audit, nftWrites, calc >>

\* a cash-out that also zeroes the usable value it pays out
CashoutUpdate_ConsumesUv(row) == [row EXCEPT !.state = "RETIRED", !.usableValue = 0]

CashoutUpdate(row) == [row EXCEPT !.state = "RETIRED"]

\* the row update committed without its audit row
CashoutCommit_NoAudit(s) ==
    LET r == inflight[s]
    IN  /\ r.kind = "cashout" /\ r.pc = "commit"
        /\ nfts' = [nfts EXCEPT ![r.nftId] = CashoutUpdate(@)]
        /\ nftWrites' = [nftWrites EXCEPT ![r.nftId] = @ + 1]
        /\ inflight' = [inflight EXCEPT ![s] = Idle]
        /\ last' = Respond("cashout", "commit", r.caller, r.nftId, "",
                           r.payload.batchCount, "OK")
        /\ UNCHANGED << audit, calc >>

CashoutCommit(s) ==
    LET r == inflight[s]
    IN  /\ r.kind = "cashout" /\ r.pc = "commit"
        /\ nfts' = [nfts EXCEPT ![r.nftId] = CashoutUpdate(@)]
        /\ audit' = Append(audit,
               AuditEvent(r.caller, "NFT_CASHED_OUT", r.nftId, r.payload))
        /\ nftWrites' = [nftWrites EXCEPT ![r.nftId] = @ + 1]
        /\ inflight' = [inflight EXCEPT ![s] = Idle]
        /\ last' = Respond("cashout", "commit", r.caller, r.nftId, "",
                           r.payload.batchCount, "OK")
        /\ UNCHANGED calc

(* ----------------- POST /collab/nft/sponsorship-convert ---------------- *)
ConvertChecks(caller, nftId, sellerId) ==
    IF ~ HasRole(caller, "COLLABORATOR") THEN "FORBIDDEN"
    ELSE IF nftId \notin DOMAIN nfts THEN "NFT_NOT_FOUND"
    ELSE IF ~ HasRole(sellerId, "SELLER") THEN "INVALID_SELLER"
    ELSE IF nfts[nftId].ownerId # caller THEN "NOT_OWNER"
    ELSE IF nfts[nftId].state = "RETIRED" THEN "NFT_RETIRED"
    ELSE "PENDING"

ConvertRead(s, caller, nftId, sellerId) ==
    LET resp == ConvertChecks(caller, nftId, sellerId)
    IN  /\ inflight[s] = Idle
        /\ inflight' =
             IF resp = "PENDING"
             THEN LET split == sponsorshipSplit(nfts[nftId].usableValue)
                      allocation ==
                          distributionInternalAllocationFromUv(nfts[nftId].usableValue)
                  IN  Suspend(s, "convert", "commit", caller, nftId, sellerId,
                          [collaboratorPayout |-> split.collaborator,
                           sellerInstantValue |-> split.seller,
                           retained |-> split.retained,
                           platformFeeFromUv |-> allocation.platformFee,
                           discountPoolFromUv |-> allocation.discountPool])
             ELSE inflight
        /\ last' = Respond("convert", "read", caller, nftId, sellerId, 0, resp)
        /\ UNCHANGED << nfts, audit, nftWrites, calc >>

\* the conversion that leaves the certificate with the collaborator
ConvertUpdate_KeepsOwner(row, sellerId, retained) ==
    [row EXCEPT !.state = "DISTRIBUTION",
                !.distributionRemainingValue = retained]

ConvertUpdate(row, sellerId, retained) ==
    [row EXCEPT !.state = "DISTRIBUTION", !.ownerId = sellerId,
                !.distributionRemainingValue = retained]

ConvertCommit(s) ==
    LET r == inflight[s]
    IN  /\ r.kind = "convert" /\ r.pc = "commit"
        /\ nfts' = [nfts EXCEPT ![r.nftId] =
                       ConvertUpdate(@, r.target, r.payload.retained)]
        /\ audit' = Append(audit,
               AuditEvent(r.caller, "NFT_SPONSORSHIP_CONVERTED", r.nftId, r.payload))
        /\ nftWrites' = [nftWrites EXCEPT ![r.nftId] = @ + 1]
        /\ inflight' = [inflight EXCEPT ![s] = Idle]
        /\ last' = Respond("convert", "commit", r.caller, r.nftId, r.target, 0, "OK")
        /\ UNCHANGED calc

(* --------------------------- specifications ---------------------------- *)
\* the ids a request names: every row and one id that has no row
NftIdInputs == 1..(Len(nfts) + 1)

\* the environment stops once the audit table holds n rows
Room(n) == Len(audit) < n

\* Spec: requests arrive one at a time (each handler runs to completion
\* before the next request), with every caller and every input.
Next ==
    \/ \E c \in Users, f \in FaceInputs :
          /\ Len(nfts) < MaxNfts \/ f \notin LadderSet
          /\ Room(MaxAudit)
          /\ Purchase(c, f)
    \/ \E c \in Users, i \in NftIdInputs, t \in UserIdInputs : GiftRead(1, c, i, t)
    \/ GiftCount(1)
    \/ Room(MaxAudit) /\ GiftCommit(1)
    \/ \E c \in Users, i \in NftIdInputs : StackRead(1, c, i)
    \/ Room(MaxAudit) /\ StackCommit(1)
    \/ \E c \in Users, i \in NftIdInputs, b \in BatchInputs : CashoutRead(1, c, i, b)
    \/ Room(MaxAudit) /\ CashoutCommit(1)
    \/ \E c \in Users, i \in NftIdInputs, t \in UserIdInputs : ConvertRead(1, c, i, t)
    \/ Room(MaxAudit) /\ ConvertCommit(1)

Spec == Init /\ [][Next]_vars

\* SpecRace: handlers interleave at their awaits.  Requests come from the
\* certificate's current owner and name a counterparty holding the role the
\* route asks for; a new request takes the lowest idle slot.
FirstIdle(s) ==
    /\ inflight[s] = Idle
    /\ \A q \in Slots : q < s => inflight[q] # Idle

NextRace ==
    \/ \E f \in RaceFaces :
          Len(nfts) < RaceNfts /\ Room(RaceAudit) /\ Purchase("c1", f)
    \/ \E s \in Slots, i \in DOMAIN nfts, t \in {"k1", "admin"} :
          FirstIdle(s) /\ GiftRead(s, nfts[i].ownerId, i, t)
    \/ \E s \in Slots : GiftCount(s)
    \/ \E s \in Slots : Room(RaceAudit) /\ GiftCommit(s)
    \/ \E s \in Slots, i \in DOMAIN nfts :
          FirstIdle(s) /\ StackRead(s, nfts[i].ownerId, i)
    \/ \E s \in Slots : Room(RaceAudit) /\ StackCommit(s)
    \/ \E s \in Slots, i \in DOMAIN nfts, b \in {2, 5} :
          FirstIdle(s) /\ CashoutRead(s, nfts[i].ownerId, i, b)
    \/ \E s \in Slots : Room(RaceAudit) /\ CashoutCommit(s)
    \/ \E s \in Slots, i \in DOMAIN nfts, t \in {"s1", "admin"} :
          FirstIdle(s) /\ ConvertRead(s, nfts[i].ownerId, i, t)
    \/ \E s \in Slots : Room(RaceAudit) /\ ConvertCommit(s)

SpecRace == Init /\ [][NextRace]_vars

\* SpecCap: the customer buys certificates and gives the one just bought to
\* a collaborator, who may cash out the one just received; one request at a
\* time.
NextCap ==
    \/ Len(nfts) < CapNfts /\ Purchase("c1", 250)
    \/ \E t \in {"k1", "admin"} :
          Len(nfts) > 0 /\ GiftRead(1, "c1", Len(nfts), t)
    \/ GiftCount(1)
    \/ GiftCommit(1)
    \/ Len(nfts) > 0 /\ CashoutRead(1, "k1", Len(nfts), 5)
    \/ CashoutCommit(1)

SpecCap == Init /\ [][NextCap]_vars

\* SpecCapRace: the customer buys certificates, keeping at most two not yet
\* given, and gives each once to collaborator k1; the gift handlers
\* interleave at their awaits.
NextCapRace ==
    \/ Len(nfts) < CapRaceNfts /\ ActiveCount("c1") < 2 /\ Purchase("c1", 250)
    \/ \E s \in Slots, i \in DOMAIN nfts :
          /\ FirstIdle(s)
          /\ nfts[i].ownerId = "c1"
          /\ \A q \in Slots : inflight[q].nftId # i
          /\ GiftRead(s, "c1", i, "k1")
    \/ \E s \in Slots : GiftCount(s)
    \/ \E s \in Slots : GiftCommit(s)

SpecCapRace == Init /\ [][NextCapRace]_vars

(* ---------------- direct application of the value rules ---------------- *)
\* the usable values of the ladder's certificates
LadderUvs == { splitLvUv(f).uv : f \in LadderSet }

FaceDomain ==
    LadderSet \cup { f + d : f \in LadderSet, d \in {0 - 1, 1} }
              \cup ((0 - 3)..MaxOffLadder)
UvDomain == (0..MaxUv) \cup LadderUvs
BatchDomain == (0 - 1)..MaxBatch

ApplySplitLvUv(f) ==
    /\ calc' = [fn |-> "splitLvUv", a |-> f, b |-> 0, out |-> splitLvUv(f)]
    /\ UNCHANGED << nfts, audit, nftWrites, inflight, last >>

ApplyCashOutSplit(batchCount, uv) ==
    /\ calc' = [fn |-> "cashOutSplit", a |-> batchCount, b |-> uv,
                out |-> cashOutSplit(batchCount, uv)]
    /\ UNCHANGED << nfts, audit, nftWrites, inflight, last >>

SemDomain == (0 - 5)..MaxSem

ApplySponsorshipSplit(uv) ==
    /\ calc' = [fn |-> "sponsorshipSplit", a |-> uv, b |-> 0,
                out |-> sponsorshipSplit(uv)]
    /\ UNCHANGED << nfts, audit, nftWrites, inflight, last >>

ApplyDistributionInternalAllocationFromUv(uv) ==
    /\ calc' = [fn |-> "distributionInternalAllocationFromUv", a |-> uv,
                b |-> 0, out |-> distributionInternalAllocationFromUv(uv)]
    /\ UNCHANGED << nfts, audit, nftWrites, inflight, last >>

\* computeSellerClass, then assertSellerCanDistribute on its result
ApplyComputeSellerClass(sem) ==
    /\ calc' = [fn |-> "computeSellerClass", a |-> sem, b |-> 0,
                out |-> [class |-> computeSellerClass(sem),
                         err |-> assertSellerCanDistribute(computeSellerClass(sem))]]
    /\ UNCHANGED << nfts, audit, nftWrites, inflight, last >>

NextFn ==
    \/ \E f \in FaceDomain : ApplySplitLvUv(f)
    \/ \E b \in BatchDomain, uv \in UvDomain : ApplyCashOutSplit(b, uv)
    \/ \E uv \in UvDomain : ApplySponsorshipSplit(uv)
    \/ \E uv \in UvDomain : ApplyDistributionInternalAllocationFromUv(uv)
    \/ \E sem \in SemDomain : ApplyComputeSellerClass(sem)

SpecFn == Init /\ [][NextFn]_vars

(* ------------------------------ properties ----------------------------- *)
Transitions == {"gift", "stack", "cashout", "convert"}

\* the route's role
RouteRole(kind) == IF kind \in {"purchase", "gift"} THEN "CUSTOMER" ELSE "COLLABORATOR"

\* the latest step answered a request when it arrived, against row nftId,
\* and the request passed the route's role check and its schema
AnsweredOnRow ==
    /\ last.kind \in Transitions
    /\ last.step = "read"
    /\ last.nftId \in DOMAIN nfts
    /\ HasRole(last.caller, RouteRole(last.kind))
    /\ (last.kind = "cashout" => last.arg \in 1..5)

AuditOf(i, types) ==
    { k \in DOMAIN audit : audit[k].nftId = i /\ audit[k].type \in types }

\* C1: once a certificate's state is RETIRED, no step changes its state,
\* its ownerId or its distributionRemainingValue.
C1_RetiredIsTerminal ==
    [][\A i \in DOMAIN nfts :
          nfts[i].state = "RETIRED" =>
             /\ nfts'[i].state = "RETIRED"
             /\ nfts'[i].ownerId = nfts[i].ownerId
             /\ nfts'[i].distributionRemainingValue
                    = nfts[i].distributionRemainingValue]_vars

\* C2: a transition requested on a RETIRED certificate is answered
\* NFT_RETIRED (here granted that the caller holds the route's role, owns
\* the certificate and sent a batchCount in 1..5).
C2_RetiredRejectsEveryTransition ==
    (/\ AnsweredOnRow
     /\ nfts[last.nftId].state = "RETIRED"
     /\ nfts[last.nftId].ownerId = last.caller)
        => last.resp = "NFT_RETIRED"

\* C3: a transition requested by a caller who is not the certificate's
\* owner is answered NOT_OWNER, whatever the state and the target are (here
\* granted that the caller holds the route's role and sent a batchCount in
\* 1..5).
C3_NonOwnerGetsNotOwner ==
    (/\ AnsweredOnRow
     /\ nfts[last.nftId].ownerId # last.caller)
        => last.resp = "NOT_OWNER"

\* C4: at most one NFT_CASHED_OUT audit fact is ever recorded for a
\* certificate.
C4_AtMostOneCashout ==
    \A i \in DOMAIN nfts : Cardinality(AuditOf(i, {"NFT_CASHED_OUT"})) <= 1

\* the amount an audit fact pays out to participants
PaidOut(e) ==
    IF e.type = "NFT_CASHED_OUT"
    THEN e.payload.collaboratorPayout + e.payload.trebalCapture
    ELSE IF e.type = "NFT_SPONSORSHIP_CONVERTED"
    THEN e.payload.collaboratorPayout + e.payload.sellerInstantValue
             + e.payload.retained
    ELSE 0

RECURSIVE TotalPaidOut(_, _)
TotalPaidOut(i, n) ==
    IF n = 0 THEN 0
    ELSE TotalPaidOut(i, n - 1)
            + (IF audit[n].nftId = i THEN PaidOut(audit[n]) ELSE 0)

\* C5: the amounts paid out by a certificate's audit facts never add up to
\* more than its usableValue.
C5_NoValueCreated ==
    \A i \in DOMAIN nfts : TotalPaidOut(i, Len(audit)) <= nfts[i].usableValue

NftFactTypes ==
    {"NFT_PURCHASED", "NFT_GIFTED", "NFT_STACKED", "NFT_CASHED_OUT",
     "NFT_SPONSORSHIP_CONVERTED"}

\* C6: every certificate has as many NFT_* audit facts as committed row
\* writes, and every audit fact is an NFT_* fact of an existing certificate.
C6_OneFactPerMutation ==
    /\ DOMAIN nftWrites = DOMAIN nfts
    /\ \A i \in DOMAIN nfts :
          Cardinality(AuditOf(i, NftFactTypes)) = nftWrites[i]
    /\ \A k \in DOMAIN audit :
          audit[k].type \in NftFactTypes /\ audit[k].nftId \in DOMAIN nfts

\* C6 witness: a certificate written four times (bought, given, and two
\* more transitions) while another handler is suspended.
C6_Witness ==
    /\ \E i \in DOMAIN nfts : nftWrites[i] = 4
    /\ \E s \in Slots : inflight[s] # Idle

\* the non-RETIRED certificates a user owns
HeldBy(u) == { i \in DOMAIN nfts : nfts[i].ownerId = u /\ nfts[i].state # "RETIRED" }

\* C7: a gift by the owner to a collaborator is answered
\* COLLABORATOR_NFT_CAP_REACHED when the collaborator owns 5 or more
\* non-RETIRED certificates at the count, and otherwise goes on to commit,
\* which makes the collaborator the owner.
C7_GiftCap ==
    /\ (last.kind = "gift" /\ last.step = "count") =>
          IF Cardinality(HeldBy(last.target)) >= 5
          THEN last.resp = "COLLABORATOR_NFT_CAP_REACHED" /\ inflight[1] = Idle
          ELSE last.resp = "PENDING" /\ inflight[1].pc = "commit"
    /\ (last.kind = "gift" /\ last.step = "commit") =>
          /\ last.resp = "OK"
          /\ nfts[last.nftId].ownerId = last.target

\* C7 witness: a gift refused at the cap, its target owning exactly five
\* non-RETIRED certificates.
C7_Witness ==
    /\ last.kind = "gift" /\ last.step = "count"
    /\ last.resp = "COLLABORATOR_NFT_CAP_REACHED"
    /\ Cardinality(HeldBy(last.target)) = 5

\* C8: every certificate has lockedValue + usableValue = faceValue with
\* faceValue on the ladder, no step changes the three values of an
\* existing certificate, and splitLvUv splits every ladder value exactly.
C8_SplitPreserved ==
    /\ [](\A i \in DOMAIN nfts :
             /\ nfts[i].faceValue \in LadderSet
             /\ nfts[i].lockedValue + nfts[i].usableValue = nfts[i].faceValue)
    /\ [][\A i \in DOMAIN nfts :
             /\ nfts'[i].faceValue = nfts[i].faceValue
             /\ nfts'[i].lockedValue = nfts[i].lockedValue
             /\ nfts'[i].usableValue = nfts[i].usableValue]_vars
    /\ [](\A f \in LadderSet :
             /\ splitLvUv(f).err = ""
             /\ splitLvUv(f).lv + splitLvUv(f).uv = f)

\* C8 witness: a certificate that was given, converted and cashed out.
C8_Witness ==
    \E i \in DOMAIN nfts :
        /\ nfts[i].state = "RETIRED"
        /\ nfts[i].giftedFromId # ""
        /\ nfts[i].distributionRemainingValue # NULL_INT

\* C9: splitLvUv fails with FACE_VALUE_NOT_ALLOWED on every value off the
\* ladder, and a purchase of such a value creates no certificate and
\* appends no audit fact (a customer is answered FACE_VALUE_NOT_ALLOWED).
C9_OffLadderRejected ==
    /\ [](\A f \in FaceDomain \ LadderSet :
             splitLvUv(f).err = "FACE_VALUE_NOT_ALLOWED")
    /\ [][(last'.kind = "purchase" /\ last'.arg \notin LadderSet) =>
             /\ nfts' = nfts
             /\ audit' = audit
             /\ nftWrites' = nftWrites
             /\ (HasRole(last'.caller, "CUSTOMER") =>
                    last'.resp = "FACE_VALUE_NOT_ALLOWED")]_vars

\* C9 witness: a customer's purchase of an off-ladder value was refused
\* while a certificate exists.
C9_Witness ==
    /\ last.kind = "purchase" /\ last.arg \notin LadderSet
    /\ last.resp = "FACE_VALUE_NOT_ALLOWED"
    /\ Len(nfts) > 0

\* C10: for batchCount in 1..5 and uv >= 0, cashOutSplit returns
\* non-negative parts that add up to uv with collaboratorPayout =
\* floor(uv * pct), pct = 30, 35, 40, 45, 50 percent; for another
\* batchCount it fails with INVALID_BATCH_COUNT.
C10_CashOutSplit ==
    calc.fn = "cashOutSplit" =>
        IF calc.a \in 1..5
        THEN /\ calc.out.err = ""
             /\ calc.out.collaboratorPayout >= 0
             /\ calc.out.trebalCapture >= 0
             /\ calc.out.collaboratorPayout + calc.out.trebalCapture = calc.b
             /\ calc.out.collaboratorPayout
                   = (calc.b * (25 + 5 * calc.a)) \div 100
        ELSE calc.out.err = "INVALID_BATCH_COUNT"

\* C11: for a fixed uv, collaboratorPayout does not decrease and
\* trebalCapture does not increase as batchCount goes up through 1..5.
C11_PayoutMonotone ==
    (calc.fn = "cashOutSplit" /\ calc.a \in 1..5) =>
        \A b2 \in calc.a..5 :
            /\ calc.out.collaboratorPayout
                  <= cashOutSplit(b2, calc.b).collaboratorPayout
            /\ calc.out.trebalCapture >= cashOutSplit(b2, calc.b).trebalCapture

\* C11 witness: batchCount 2 on uv 180, where the double product falls
\* below 63, compared with the rows above it.
C11_Witness ==
    /\ calc.fn = "cashOutSplit" /\ calc.a = 2 /\ calc.b = 180
    /\ calc.out.collaboratorPayout = 62

\* C12: sponsorshipSplit(uv) returns collaborator = floor(uv/2), seller =
\* floor(uv/4) and retained = uv - collaborator - seller, all non-negative
\* and adding up to uv.
C12_SponsorshipSplit ==
    calc.fn = "sponsorshipSplit" =>
        /\ calc.out.collaborator = calc.a \div 2
        /\ calc.out.seller = calc.a \div 4
        /\ calc.out.retained = calc.a - (calc.a \div 2) - (calc.a \div 4)
        /\ calc.out.collaborator + calc.out.seller + calc.out.retained = calc.a
        /\ calc.out.collaborator >= 0
        /\ calc.out.seller >= 0
        /\ calc.out.retained >= 0

\* C12 witness: a usable value divisible by neither 2 nor 4.
C12_Witness ==
    /\ calc.fn = "sponsorshipSplit" /\ calc.a = 225
    /\ calc.out.retained = 57

ClassRank(c) ==
    IF c = "A" THEN 5 ELSE IF c = "B" THEN 4 ELSE IF c = "C" THEN 3
    ELSE IF c = "D" THEN 2 ELSE 1

\* C13: computeSellerClass returns A iff sem >= 300, B iff 150 <= sem <
\* 300, C iff 80 <= sem < 150, D iff 40 <= sem < 80, E iff sem < 40; the
\* class never improves as sem decreases; sem is below
\* DISTRIBUTION_TERMINAL_THRESHOLD exactly when the class is E, the one
\* class assertSellerCanDistribute rejects.
C13_SellerClass ==
    calc.fn = "computeSellerClass" =>
        /\ calc.out.class \in {"A", "B", "C", "D", "E"}
        /\ (calc.out.class = "A") = (calc.a >= 300)
        /\ (calc.out.class = "B") = (calc.a >= 150 /\ calc.a < 300)
        /\ (calc.out.class = "C") = (calc.a >= 80 /\ calc.a < 150)
        /\ (calc.out.class = "D") = (calc.a >= 40 /\ calc.a < 80)
        /\ (calc.out.class = "E") = (calc.a < 40)
        /\ \A lower \in SemDomain :
              lower <= calc.a =>
                 ClassRank(computeSellerClass(lower)) <= ClassRank(calc.out.class)
        /\ (calc.a < DISTRIBUTION_TERMINAL_THRESHOLD) = (calc.out.class = "E")
        /\ (calc.out.err = "SELLER_CLASS_E_NOT_PERMITTED") = (calc.out.class = "E")
        /\ calc.out.err \in {"", "SELLER_CLASS_E_NOT_PERMITTED"}

\* C13 witness: the score at the lowest threshold is class D and may
\* distribute.
C13_Witness ==
    /\ calc.fn = "computeSellerClass" /\ calc.a = 40
    /\ calc.out.class = "D" /\ calc.out.err = ""

\* C19: platformFee = floor(uv * 10%) and discountPool = floor(uv * 15%)
\* together never exceed sponsorshipSplit(uv).retained.
C19_AllocationFitsRetained ==
    calc.fn = "distributionInternalAllocationFromUv" =>
        /\ calc.out.platformFee = calc.a \div 10
        /\ calc.out.discountPool = (calc.a * 15) \div 100
        /\ calc.out.platformFee + calc.out.discountPool
              <= sponsorshipSplit(calc.a).retained

\* C19 witness: uv = 20, where the two allocations take all of retained.
C19_Witness ==
    /\ calc.fn = "distributionInternalAllocationFromUv" /\ calc.a = 20
    /\ calc.out.platformFee + calc.out.discountPool = 5
    /\ sponsorshipSplit(20).retained = 5

\* C14: a sponsorship convert whose target seller has class E is rejected
\* with SELLER_CLASS_E_NOT_PERMITTED (here granted that the caller owns the
\* certificate and it is not RETIRED), and no DISTRIBUTION certificate is
\* owned by a class-E seller.
C14_ClassEGetsNoDistribution ==
    /\ (/\ AnsweredOnRow
        /\ last.kind = "convert"
        /\ nfts[last.nftId].ownerId = last.caller
        /\ nfts[last.nftId].state # "RETIRED"
        /\ HasRole(last.target, "SELLER")
        /\ computeSellerClass(UserSem[last.target]) = "E")
          => last.resp = assertSellerCanDistribute("E")
    /\ \A i \in DOMAIN nfts :
          (nfts[i].state = "DISTRIBUTION" /\ HasRole(nfts[i].ownerId, "SELLER"))
             => computeSellerClass(UserSem[nfts[i].ownerId]) # "E"

\* C15: a gift is applied only to a certificate in state GIFT, and leaves
\* it in state GIFT, owned by the target, with giftedFromId the caller.
C15_GiftOnlyFromGift ==
    [][(last'.kind = "gift" /\ last'.step = "commit") =>
          /\ nfts[last'.nftId].state = "GIFT"
          /\ nfts'[last'.nftId].state = "GIFT"
          /\ nfts'[last'.nftId].ownerId = last'.target
          /\ nfts'[last'.nftId].giftedFromId = last'.caller]_vars

\* C16: a successful sponsorship convert leaves the certificate in state
\* DISTRIBUTION, owned by the target, a holder of the SELLER role, with
\* distributionRemainingValue the retained part of its stored usableValue;
\* a convert naming a target without the SELLER role is answered
\* INVALID_SELLER.
C16_ConvertEffect ==
    /\ (last.kind = "convert" /\ last.step = "commit") =>
          LET row == nfts[last.nftId]
              uv == row.usableValue
          IN  /\ last.resp = "OK"
              /\ row.state = "DISTRIBUTION"
              /\ row.ownerId = last.target
              /\ HasRole(last.target, "SELLER")
              /\ row.distributionRemainingValue = uv - (uv \div 2) - (uv \div 4)
    /\ (/\ AnsweredOnRow
        /\ last.kind = "convert"
        /\ ~ HasRole(last.target, "SELLER"))
          => last.resp = "INVALID_SELLER"

\* C16 witness: a collaborator's certificate of usable value 900 converted
\* to a seller.
C16_Witness ==
    /\ last.kind = "convert" /\ last.step = "commit"
    /\ last.caller = "k1" /\ last.target = "s1"
    /\ nfts[last.nftId].distributionRemainingValue = 225

\* C17: no collaborator ever owns more than 5 non-RETIRED certificates.
C17_CapUnderConcurrency ==
    \A u \in Users :
        HasRole(u, "COLLABORATOR") => Cardinality(HeldBy(u)) <= 5

Rejections ==
    {"FORBIDDEN", "ZOD_ERROR", "NFT_NOT_FOUND", "NOT_OWNER", "NFT_RETIRED",
     "INVALID_COLLABORATOR", "INVALID_SELLER", "COLLABORATOR_NFT_CAP_REACHED",
     "INVALID_BATCH_COUNT"}

C20_StackAndCashoutFrame ==
    [][\A i \in DOMAIN nfts :
          /\ (last'.kind = "stack" /\ last'.step = "commit") =>
                nfts'[i] = IF i = last'.nftId
                           THEN [nfts[i] EXCEPT !.state = "STACKED"]
                           ELSE nfts[i]
          /\ (last'.kind = "cashout" /\ last'.step = "commit") =>
                nfts'[i] = IF i = last'.nftId
                           THEN [nfts[i] EXCEPT !.state = "RETIRED"]
                           ELSE nfts[i]
          /\ nfts'[i].ownerId # nfts[i].ownerId =>
                /\ last'.kind \in {"gift", "convert"}
                /\ last'.step = "commit"
                /\ last'.resp = "OK"
                /\ last'.nftId = i]_vars

\* C20 witness: a DISTRIBUTION certificate that had been given was stacked.
C20_Witness ==
    /\ last.kind = "stack" /\ last.step = "commit"
    /\ nfts[last.nftId].state = "STACKED"
    /\ nfts[last.nftId].giftedFromId # ""
    /\ nfts[last.nftId].distributionRemainingValue # NULL_INT

====
